---- MODULE Spec2Model ----
(***************************************************************************)
(* mm2ledger: account reconciliation (config.merge_accounts) and the       *)
(* per-account import pipeline (database.get_transactions,                 *)
(* importer.import_account, importer._write_csv, importer._postprocess).   *)
(*                                                                         *)
(* Text (journal files, converter output) is a sequence of one-character   *)
(* strings, so that str.replace, re.sub, str.strip and re.findall are      *)
(* modelled character by character.                                        *)
(***************************************************************************)
EXTENDS Integers, Sequences, FiniteSets, TLC

VARIABLES
    \* ---- merge_accounts (config.py) ----
    existing,       \* the caller's existing list (its entries are refreshed in place)
    discovered,     \* the caller's discovered list
    merged,         \* last returned merged list
    new_accounts,   \* last returned new-accounts list
    removed_ids,    \* last returned removed ids
    before,         \* history: value of `existing` when the last call began
    prev,           \* history: result of the call before the last one
    given,          \* history: value of `existing` before the first call
    calls,          \* number of merge_accounts calls made so far
    \* ---- _postprocess applied on its own (importer.py) ----
    post_in,        \* a converter output text
    post_out,       \* the results of applying _postprocess to it once, twice, ...
    \* ---- import pipeline (importer.py, database.py) ----
    accounts,       \* config.accounts
    db,             \* rows of the MoneyMoney transactions table
    journal,        \* the files of the ledger directory, by name
    tmpfiles,       \* names of the temporary CSV files that exist
    last,           \* history: the last import_account call and its outcome
    batch           \* the import_all call under way, or the last one made

mergeVars == <<existing, discovered, merged, new_accounts, removed_ids, before, prev,
               given, calls>>

postVars == <<post_in, post_out>>

importVars == <<accounts, db, journal, tmpfiles, last, batch>>

vars == <<mergeVars, postVars, importVars>>

-----------------------------------------------------------------------------
(* Bounds of the model *)

MaxId == 3          \* account ids are 1..MaxId
MaxLen == 2         \* longest existing / discovered list
MaxCalls == 2       \* merge_accounts calls in one behaviour
MaxPieces == 4      \* longest text, in pieces, given to _postprocess on its own
MaxApply == 2       \* successive applications of _postprocess
MaxTxn == 2         \* rows the transactions table may come to hold
MaxTmp == 1         \* temporary files that may be left behind in one behaviour

-----------------------------------------------------------------------------
(* AccountConfig values *)

None == "None"

AccountConfig(id, mm_name, currency, ledger_account, journal_file, start, on, iban, bic) ==
    [id |-> id, mm_name |-> mm_name, currency |-> currency,
     ledger_account |-> ledger_account, journal_file |-> journal_file,
     start_date |-> start, enabled |-> on, iban |-> iban, bic |-> bic]

DEFAULT_START_DATE == "2024-01-01"

\* Entries as a saved configuration may hold them: one left at its generated
\* defaults, one the user renamed, re-dated and enabled (with stale bank data).
ExistingEntries ==
    { AccountConfig(i, "Giro", "EUR", "Assets:Giro", "Assets_Giro.journal",
                    DEFAULT_START_DATE, FALSE, "DE01", "BIC1") : i \in 1..MaxId }
    \cup
    { AccountConfig(i, "Old", "CHF", "Assets:Bank:Main", "main.journal",
                    "2023-06-01", TRUE, None, None) : i \in 1..MaxId }

\* Entries as a caller may pass them as discovered: with the dataclass default
\* enabled = False, or already enabled.
DiscoveredEntries ==
    { AccountConfig(i, "Giro", "EUR", "Assets:Giro", "Assets_Giro.journal",
                    DEFAULT_START_DATE, FALSE, "DE01", "BIC1") : i \in 1..MaxId }
    \cup
    { AccountConfig(i, "Depot", "USD", "Assets:Depot", "Assets_Depot.journal",
                    DEFAULT_START_DATE, TRUE, "DE02", None) : i \in 1..MaxId }

ListsOf(S) == UNION { [1..n -> S] : n \in 0..MaxLen }

-----------------------------------------------------------------------------
(* merge_accounts *)

IdsOf(list) == { list[i].id : i \in DOMAIN list }

\* {acc.id: acc for acc in list}: a later entry replaces an earlier one.
ById(list) ==
    [ k \in IdsOf(list) |->
        list[CHOOSE i \in DOMAIN list :
                /\ list[i].id = k
                /\ \A j \in DOMAIN list : list[j].id = k => j <= i] ]

\* lines 152-155, with the fields swapped round: a slip in the refresh
RefreshSwapped(acc, db_acc) ==
    [acc EXCEPT !.mm_name = db_acc.mm_name, !.currency = db_acc.currency,
                !.iban = db_acc.iban, !.bic = db_acc.bic,
                !.ledger_account = db_acc.ledger_account,
                !.enabled = db_acc.enabled]

\* lines 151-155: the in-place refresh of an existing entry
Refresh(acc, db_acc) ==
    [acc EXCEPT !.mm_name = db_acc.mm_name, !.currency = db_acc.currency,
                !.iban = db_acc.iban, !.bic = db_acc.bic]

\* the existing list after the call, had the call also added the new accounts to it
ExistingAfterGrowing(ex, disc) ==
    [ i \in DOMAIN ex |->
        IF ex[i].id \in IdsOf(disc) THEN Refresh(ex[i], ById(disc)[ex[i].id])
        ELSE ex[i] ]
    \o SelectSeq(disc, LAMBDA acc : acc.id \notin IdsOf(ex))

\* the caller's existing list after the call: same entries, refreshed in place
ExistingAfter(ex, disc) ==
    [ i \in DOMAIN ex |->
        IF ex[i].id \in IdsOf(disc) THEN Refresh(ex[i], ById(disc)[ex[i].id])
        ELSE ex[i] ]

\* second loop without its membership test: every discovered entry is added
AddedAll(ex, disc) == disc

\* first loop (lines 148-156): the existing entries appended to merged
Kept(ex, disc) ==
    SelectSeq(ExistingAfter(ex, disc), LAMBDA acc : acc.id \in IdsOf(disc))

RECURSIVE IdSeq(_)
IdSeq(list) ==
    IF list = <<>> THEN <<>> ELSE <<Head(list).id>> \o IdSeq(Tail(list))

\* first loop, recording the ids it keeps instead of those it drops
RemovedInverted(ex, disc) ==
    IdSeq(SelectSeq(ex, LAMBDA acc : acc.id \in IdsOf(disc)))

\* first loop (lines 157-158): the ids appended to removed_ids
Removed(ex, disc) ==
    IdSeq(SelectSeq(ex, LAMBDA acc : acc.id \notin IdsOf(disc)))

\* second loop (lines 161-164): the discovered entries appended to new_accounts
\* and to merged
Added(ex, disc) ==
    SelectSeq(disc, LAMBDA acc : acc.id \notin IdsOf(ex))

\* list.sort(key=lambda a: a.id): a stable sort, ascending by id
RECURSIVE InsertById(_, _)
InsertById(acc, sorted) ==
    IF sorted = <<>> THEN <<acc>>
    ELSE IF acc.id < Head(sorted).id THEN <<acc>> \o sorted
    ELSE <<Head(sorted)>> \o InsertById(acc, Tail(sorted))

RECURSIVE SortFrom(_, _)
SortFrom(list, sorted) ==
    IF list = <<>> THEN sorted
    ELSE SortFrom(Tail(list), InsertById(Head(list), sorted))

\* the sort left out
Unsorted(list) == list

SortById(list) == SortFrom(list, <<>>)

\* merge_accounts(existing, discovered) -> (merged, new_accounts, removed_ids)
merge_accounts(ex, disc) ==
    [ merged       |-> SortById(Kept(ex, disc) \o Added(ex, disc)),
      new_accounts |-> Added(ex, disc),
      removed_ids  |-> Removed(ex, disc) ]

NoResult == [ merged |-> <<>>, new_accounts |-> <<>>, removed_ids |-> <<>> ]

LastResult ==
    [ merged |-> merged, new_accounts |-> new_accounts, removed_ids |-> removed_ids ]

MergeIdle ==
    /\ existing = <<>>
    /\ discovered = <<>>
    /\ merged = <<>>
    /\ new_accounts = <<>>
    /\ removed_ids = <<>>
    /\ before = <<>>
    /\ prev = NoResult
    /\ given = <<>>
    /\ calls = 0

PostIdle ==
    /\ post_in = <<>>
    /\ post_out = <<>>

ImportIdle ==
    /\ accounts = <<>>
    /\ db = {}
    /\ journal = <<>>
    /\ tmpfiles = {}
    /\ last = <<>>
    /\ batch = <<>>

MergeInit ==
    /\ PostIdle
    /\ ImportIdle
    /\ existing \in ListsOf(ExistingEntries)
    /\ discovered \in ListsOf(DiscoveredEntries)
    /\ merged = <<>>
    /\ new_accounts = <<>>
    /\ removed_ids = <<>>
    /\ before = existing
    /\ prev = NoResult
    /\ given = existing
    /\ calls = 0

\* One call merge_accounts(existing, discovered) on the caller's two lists.
MergeAccounts ==
    /\ calls < MaxCalls
    /\ \E r \in {merge_accounts(existing, discovered)} :
        /\ merged' = r.merged
        /\ new_accounts' = r.new_accounts
        /\ removed_ids' = r.removed_ids
    /\ existing' = ExistingAfter(existing, discovered)
    /\ before' = existing
    /\ prev' = LastResult
    /\ calls' = calls + 1
    /\ UNCHANGED <<discovered, given, postVars, importVars>>

MergeNext == MergeAccounts

MergeSpec == MergeInit /\ [][MergeNext]_vars

-----------------------------------------------------------------------------
(* Text: sequences of one-character strings *)

Digits == {"0", "1", "2", "3", "4", "5", "6", "7", "8", "9"}

Letters ==
    {"A", "B", "C", "D", "E", "F", "G", "H", "I", "J", "K", "L", "M",
     "N", "O", "P", "Q", "R", "S", "T", "U", "V", "W", "X", "Y", "Z",
     "a", "b", "c", "d", "e", "f", "g", "h", "i", "j", "k", "l", "m",
     "n", "o", "p", "q", "r", "s", "t", "u", "v", "w", "x", "y", "z"}

NL == "\n"

\* str.strip() and \s: ASCII whitespace
Whitespace == {" ", "\t", "\n", "\r"}

\* whether pat occurs in s at position i
MatchAt(s, i, pat) ==
    /\ i + Len(pat) - 1 <= Len(s)
    /\ \A k \in 1..Len(pat) : s[i + k - 1] = pat[k]

\* s[i..j] as a text (empty when j < i)
Slice(s, i, j) == SubSeq(s, i, j)

\* the first position from i on where pat occurs in s, or 0
NextMatch(s, i, pat) ==
    LET at == { k \in i..Len(s) : MatchAt(s, k, pat) }
    IN  IF at = {} THEN 0 ELSE CHOOSE k \in at : \A m \in at : k <= m

\* str.replace(old, new) from position i on: non-overlapping, left to right
RECURSIVE ReplaceFrom(_, _, _, _)
ReplaceFrom(s, i, old, new) ==
    LET k == NextMatch(s, i, old)
    IN  IF k = 0 THEN Slice(s, i, Len(s))
        ELSE Slice(s, i, k - 1) \o new \o ReplaceFrom(s, k + Len(old), old, new)

Replace(s, old, new) == ReplaceFrom(s, 1, old, new)

\* end (exclusive) of the longest run of characters of class cls starting at i
RunEnd(s, i, cls) ==
    LET stop == { k \in i..Len(s) : s[k] \notin cls }
    IN  IF stop = {} THEN Len(s) + 1 ELSE CHOOSE k \in stop : \A m \in stop : k <= m

UUID_PREFIX == <<"U", "U", "I", "D", ":", " ">>

\* the class [A-Za-z0-9-]
TokenChars == Letters \cup Digits \cup {"-"}

\* whether r"UUID: ([A-Za-z0-9-]*)/([0-9]*)" matches at position i.  Group 1 is
\* greedy and cannot hold a slash, so the pattern matches exactly when the
\* character after the longest token run is a slash.
SlashTokenAt(s, i) ==
    /\ MatchAt(s, i, UUID_PREFIX)
    /\ LET e1 == RunEnd(s, i + Len(UUID_PREFIX), TokenChars)
       IN  e1 <= Len(s) /\ s[e1] = "/"

\* re.sub(r"UUID: ([A-Za-z0-9-]*)/([0-9]*)", r"UUID: \1\2", s) from position i
\* on: the leftmost match, group 2 the longest digit run after the one slash,
\* then on from the end of the match
RECURSIVE SubSlashFrom(_, _)
SubSlashFrom(s, i) ==
    LET at == { k \in i..Len(s) : SlashTokenAt(s, k) }
    IN  IF at = {} THEN Slice(s, i, Len(s))
        ELSE LET k == CHOOSE m \in at : \A n \in at : m <= n
                 g1 == k + Len(UUID_PREFIX)
                 e1 == RunEnd(s, g1, TokenChars)
                 e2 == RunEnd(s, e1 + 1, Digits)
             IN  Slice(s, i, k - 1)
                    \o UUID_PREFIX \o Slice(s, g1, e1 - 1) \o Slice(s, e1 + 1, e2 - 1)
                    \o SubSlashFrom(s, e2)

SubSlash(s) == SubSlashFrom(s, 1)

SEMI_BRACE == <<";", "{">>
SEMI_SPACE_BRACE == <<";", " ", "{">>
EXPENSES_UNKNOWN ==
    <<"E", "x", "p", "e", "n", "s", "e", "s", ":", "U", "n", "k", "n", "o", "w", "n">>
UNMATCHED == <<"U", "n", "m", "a", "t", "c", "h", "e", "d">>

\* _postprocess(output)
_postprocess(output) ==
    SubSlash(Replace(Replace(output, SEMI_BRACE, SEMI_SPACE_BRACE),
                     EXPENSES_UNKNOWN, UNMATCHED))

-----------------------------------------------------------------------------
(* _postprocess applied to a text, and again to its own result *)

\* pieces converter output is put together from
Pieces ==
    { UUID_PREFIX, <<"M", "-", "1", "2", "3">>, <<"/">>, <<"4", "5", "6">>,
      SEMI_BRACE, EXPENSES_UNKNOWN, <<NL>> }

RECURSIVE Flatten(_)
Flatten(ps) == IF ps = <<>> THEN <<>> ELSE Head(ps) \o Flatten(Tail(ps))

PostInit ==
    /\ MergeIdle
    /\ ImportIdle
    /\ \E ps \in UNION { [1..n -> Pieces] : n \in 0..MaxPieces } :
        post_in = Flatten(ps)
    /\ post_out = <<>>

\* output = _postprocess(output), on the text or on the previous result
Postprocess ==
    /\ Len(post_out) < MaxApply
    /\ post_out' = Append(post_out,
                          _postprocess(IF post_out = <<>> THEN post_in
                                       ELSE post_out[Len(post_out)]))
    /\ UNCHANGED <<post_in, mergeVars, importVars>>

PostNext == Postprocess

PostSpec == PostInit /\ [][PostNext]_vars

-----------------------------------------------------------------------------
(* database.get_transactions *)

\* rowids the transactions table hands out
RowIds == { IF k = 1 THEN 1 ELSE k + 8 : k \in 1..MaxTxn }

START_2024_01_01 == <<"2", "0", "2", "4", "-", "0", "1", "-", "0", "1">>
DATE_2023_12_31 == <<"2", "0", "2", "3", "-", "1", "2", "-", "3", "1">>
DATE_2024_02_01 == <<"2", "0", "2", "4", "-", "0", "2", "-", "0", "1">>

ValueDates == {DATE_2023_12_31, DATE_2024_02_01}

\* code-point order of the characters of an ISO date
DateChars == <<"-", "0", "1", "2", "3", "4", "5", "6", "7", "8", "9">>

Ord(c) == CHOOSE i \in DOMAIN DateChars : DateChars[i] = c

\* a >= b as SQLite compares two strings
RECURSIVE TextGE(_, _)
TextGE(a, b) ==
    IF b = <<>> THEN TRUE
    ELSE IF a = <<>> THEN FALSE
    ELSE IF Head(a) = Head(b) THEN TextGE(Tail(a), Tail(b))
    ELSE Ord(Head(a)) > Ord(Head(b))

\* ORDER BY transaction_id ASC
RECURSIVE OrderById(_)
OrderById(rows) ==
    IF rows = {} THEN <<>>
    ELSE LET first == CHOOSE r \in rows :
                        \A q \in rows : r.transaction_id <= q.transaction_id
         IN  <<first>> \o OrderById(rows \ {first})

\* get_transactions(db_path, password, account_id, start_date, ...)
get_transactions(rows, account_id, start_date) ==
    OrderById({ r \in rows : /\ r.account_id = account_id
                              /\ TextGE(r.value_date, start_date) })

-----------------------------------------------------------------------------
(* importer._write_csv, the converter, importer.import_account *)

DigitOf == <<"1", "2", "3", "4", "5", "6", "7", "8", "9">>

\* str(n) of a non-negative integer
RECURSIVE Str(_)
Str(n) ==
    IF n < 10 THEN <<IF n = 0 THEN "0" ELSE DigitOf[n]>>
    ELSE Str(n \div 10) \o <<IF n % 10 = 0 THEN "0" ELSE DigitOf[n % 10]>>

\* the row _write_csv writes for one transaction: its UUID and date columns
CsvRow(txn) ==
    [ UUID |-> <<"M", "-">> \o Str(txn.transaction_id), date |-> txn.value_date ]

\* _write_csv(transactions): the rows below the header row
_write_csv(transactions) ==
    [ k \in DOMAIN transactions |-> CsvRow(transactions[k]) ]

\* end (exclusive) of the line that position i is on
LineEnd(s, i) ==
    LET stop == { k \in i..Len(s) : s[k] = NL }
    IN  IF stop = {} THEN Len(s) + 1 ELSE CHOOSE k \in stop : \A m \in stop : k <= m

\* the converter's duplicate scan: the values of the UUID tags of a journal
UuidTokens(text) ==
    { Slice(text, i + Len(UUID_PREFIX), LineEnd(text, i + Len(UUID_PREFIX)) - 1) :
        i \in { k \in DOMAIN text : MatchAt(text, k, UUID_PREFIX) } }

\* the entry the converter prints for one CSV row
Entry(row) ==
    row.date \o <<NL>>
    \o <<";">> \o UUID_PREFIX \o row.UUID \o <<NL>>
    \o SEMI_BRACE \o <<"}", NL>>
    \o EXPENSES_UNKNOWN \o <<NL>>

RECURSIVE Entries(_)
Entries(rows) ==
    IF rows = <<>> THEN <<>> ELSE Entry(Head(rows)) \o Entries(Tail(rows))

\* ledger convert: one dated entry carrying "UUID: M-<id>" for each row whose
\* UUID is under no UUID tag of the journal; `blank` is what it prints when
\* there is no such row
LedgerConvert(csv, journal_text, blank) ==
    LET fresh == SelectSeq(csv, LAMBDA row : row.UUID \notin UuidTokens(journal_text))
    IN  IF fresh = <<>> THEN blank ELSE Entries(fresh)

\* the command line without "--file", str(journal_path)
_run_ledger_convert_without_journal(csv, journal_text, blank) ==
    LedgerConvert(csv, <<>>, blank)

\* _run_ledger_convert(csv_path, rules_path, journal_path, account_name), when
\* the converter runs and exits 0: its standard output
_run_ledger_convert(csv, journal_text, blank) ==
    LedgerConvert(csv, journal_text, blank)

\* str.strip()
RECURSIVE LStrip(_)
LStrip(s) ==
    IF s # <<>> /\ Head(s) \in Whitespace THEN LStrip(Tail(s)) ELSE s

RECURSIVE RStrip(_)
RStrip(s) ==
    IF s # <<>> /\ s[Len(s)] \in Whitespace THEN RStrip(SubSeq(s, 1, Len(s) - 1)) ELSE s

Strip(s) == RStrip(LStrip(s))

\* `not output`: the test without the strip
IsEmptyText(output) == output = <<>>

\* `not output.strip()`
IsBlank(output) == Strip(output) = <<>>

\* \d{4}-\d{2}-\d{2} at position i
DateAt(s, i) ==
    /\ i + 9 <= Len(s)
    /\ \A k \in {0, 1, 2, 3, 5, 6, 8, 9} : s[i + k] \in Digits
    /\ s[i + 4] = "-"
    /\ s[i + 7] = "-"

\* the same count without re.MULTILINE: ^ matches at the start of the text only
CountDatedAtStart(output) ==
    IF DateAt(output, 1) THEN 1 ELSE 0

\* len(re.findall(r"^\d{4}-\d{2}-\d{2}", output, re.MULTILINE))
CountDated(output) ==
    Cardinality({ i \in DOMAIN output :
                    /\ i = 1 \/ output[i - 1] = NL
                    /\ DateAt(output, i) })

NoFile == [ exists |-> FALSE, text |-> <<>> ]

File(text) == [ exists |-> TRUE, text |-> text ]

\* if not journal_path.exists(): journal_path.touch()
Touch(file) == IF file.exists THEN file ELSE File(<<>>)

\* with open(journal_path, "w") as f: the file is truncated, then written
AppendToTruncated(file, output) == File(<<NL>> \o output)

\* with open(journal_path, "a") as f: f.write("\n"); f.write(output)
AppendTo(file, output) == File(file.text \o <<NL>> \o output)

\* What the environment does to one import_account call.  "fetch": the
\* password cannot be resolved or the sqlcipher query fails (lines 20-29);
\* "encode": writing a row of the CSV fails (lines 72-84); "ledger_missing":
\* there is no ledger binary (line 109); "ledger_exit": ledger exits non-zero
\* (line 114).
Faults == {"fetch", "encode", "ledger_missing", "ledger_exit"}

Envs ==
    { [ fault |-> "none", blank |-> b ] : b \in {<<>>, <<NL>>} }
    \cup { [ fault |-> f, blank |-> <<>> ] : f \in Faults }

\* subprocess.run without check=True: a non-zero exit raises nothing
ConvertRaisesIfMissing(env) == env.fault = "ledger_missing"

\* _run_ledger_convert raises RuntimeError (lines 107-115)
ConvertRaises(env) == env.fault \in {"ledger_missing", "ledger_exit"}

\* the outcome of a call: the journal file, whether a temporary file is left,
\* whether the call raised, and the count returned
Outcome(file, leaked, raised, ret, transactions, output, appended) ==
    [ file |-> file, leaked |-> leaked, raised |-> raised, ret |-> ret,
      transactions |-> transactions, output |-> output, appended |-> appended ]

\* import_account(config, account) on the journal file `file` of the account
import_account(rows, file, account, env) ==
    LET transactions == get_transactions(rows, account.id, account.start_date)
        touched == Touch(file)
        csv == _write_csv(transactions)
        output == _run_ledger_convert(csv, touched.text, env.blank)
        processed == _postprocess(output)
    IN  IF env.fault = "fetch"
            THEN Outcome(file, FALSE, TRUE, 0, <<>>, <<>>, <<>>)
        ELSE IF transactions = <<>>
            THEN Outcome(file, FALSE, FALSE, 0, transactions, <<>>, <<>>)
        ELSE IF env.fault = "encode"
            THEN Outcome(touched, TRUE, TRUE, 0, transactions, <<>>, <<>>)
        ELSE IF ConvertRaises(env)
            THEN Outcome(touched, FALSE, TRUE, 0, transactions, <<>>, <<>>)
        ELSE IF IsBlank(output)
            THEN Outcome(touched, FALSE, FALSE, 0, transactions, output, <<>>)
        ELSE Outcome(AppendTo(touched, processed), FALSE, FALSE,
                     CountDated(processed), transactions, output,
                     <<NL>> \o processed)

-----------------------------------------------------------------------------
(* The import pipeline as a state machine *)

GIRO == "Assets_Giro.journal"
DEPOT == "Assets_Depot.journal"

JournalFiles == {GIRO, DEPOT}

\* Two configured accounts: under their generated names and files, or both
\* named alike (and so, by generate_journal_filename, sharing a journal).
Configs ==
    { << AccountConfig(1, "Giro", "EUR", "Assets:Giro", GIRO,
                       START_2024_01_01, TRUE, None, None),
         AccountConfig(2, n, "EUR", "Assets:" \o n, "Assets_" \o n \o ".journal",
                       START_2024_01_01, TRUE, None, None) >> :
        n \in {"Giro", "Depot"} }

NoCall ==
    [ account |-> 0, fault |-> "none", before |-> NoFile, out |-> Outcome(NoFile, FALSE, FALSE, 0, <<>>, <<>>, <<>>) ]

\* no import_all call has been made
NoBatch ==
    [ pc |-> "idle", enabled |-> <<>>, calls |-> <<>>, results |-> <<>>,
      start |-> [ f \in JournalFiles |-> NoFile ] ]

ImportInit ==
    /\ MergeIdle
    /\ PostIdle
    /\ accounts \in Configs
    /\ db = {}
    /\ journal = [ f \in JournalFiles |-> NoFile ]
    /\ tmpfiles = {}
    /\ last = NoCall
    /\ batch = NoBatch

\* MoneyMoney books a transaction: a row appears in the transactions table.
DbAdd ==
    /\ \E id \in RowIds, a \in DOMAIN accounts, d \in ValueDates :
        /\ \A r \in db : r.transaction_id # id
        /\ db' = db \cup { [ transaction_id |-> id, account_id |-> accounts[a].id,
                             value_date |-> d ] }
    /\ UNCHANGED <<accounts, journal, tmpfiles, last, batch, mergeVars, postVars>>

\* The effect of one call import_account(config, accounts[a]) with outcome
\* `out` on the journal directory and the temporary directory.
Call(a, env, out) ==
    LET f == accounts[a].journal_file IN
    /\ out.leaked => Cardinality(tmpfiles) < MaxTmp
    /\ journal' = [ journal EXCEPT ![f] = out.file ]
    /\ tmpfiles' = IF out.leaked
                     THEN tmpfiles \cup {Cardinality(tmpfiles) + 1}
                     ELSE tmpfiles
    /\ last' = [ account |-> a, fault |-> env.fault, before |-> journal[f],
                 out |-> out ]

\* One call import_account(config, accounts[a]) on its own, from its first
\* line to its return or to the exception leaving it.
ImportAccount ==
    /\ \E a \in DOMAIN accounts, env \in Envs :
        \E out \in {import_account(db, journal[accounts[a].journal_file], accounts[a], env)} :
            Call(a, env, out)
    /\ UNCHANGED <<accounts, db, batch, mergeVars, postVars>>

ImportNext == DbAdd \/ ImportAccount

ImportSpec == ImportInit /\ [][ImportNext]_vars

-----------------------------------------------------------------------------
(* importer.import_all as a state machine *)

\* enabled = [acc for acc in config.accounts if acc.enabled], unfiltered
AllAccounts(accs) == [ i \in DOMAIN accs |-> i ]

\* enabled = [acc for acc in config.accounts if acc.enabled], as positions in
\* config.accounts
EnabledAccounts(accs) ==
    SelectSeq([ i \in DOMAIN accs |-> i ], LAMBDA i : accs[i].enabled)

\* results.setdefault(name, count): the first count under a name stays
KeepFirstResult(results, name, count) ==
    [ n \in DOMAIN results \cup {name} |->
        IF n \in DOMAIN results THEN results[n] ELSE count ]

\* results[account.ledger_account] = count
SetResult(results, name, count) ==
    [ n \in DOMAIN results \cup {name} |->
        IF n = name THEN count ELSE results[n] ]

\* The configurations of ImportInit, and the one of distinct names with its
\* first account, or both accounts, left disabled (as merge_accounts adds them).
BatchConfigs ==
    Configs \cup
    { [ i \in 1..2 |-> [ c[i] EXCEPT !.enabled = on[i] ] ] :
        c \in { d \in Configs : d[2].mm_name = "Depot" },
        on \in { <<FALSE, TRUE>>, <<FALSE, FALSE>> } }

BatchInit ==
    /\ MergeIdle
    /\ PostIdle
    /\ accounts \in BatchConfigs
    /\ db = {}
    /\ journal = [ f \in JournalFiles |-> NoFile ]
    /\ tmpfiles = {}
    /\ last = NoCall
    /\ batch = NoBatch

\* import_all(config) up to its loop: results = {}, the enabled accounts are
\* selected, and with none of them the empty results are returned.
ImportAllBegin ==
    /\ batch.pc # "running"
    /\ \E enabled \in {EnabledAccounts(accounts)} :
        batch' = [ pc |-> IF enabled = <<>> THEN "returned" ELSE "running",
                   enabled |-> enabled, calls |-> <<>>, results |-> <<>>,
                   start |-> journal ]
    /\ UNCHANGED <<accounts, db, journal, tmpfiles, last, mergeVars, postVars>>

\* One turn of the loop of import_all: import_account for the next enabled
\* account; its exception leaves import_all, its count is stored under the
\* account's ledger_account, and after the last account results is returned.
ImportAllStep ==
    /\ batch.pc = "running"
    /\ LET a == batch.enabled[Len(batch.calls) + 1] IN
       \E env \in Envs :
        \E out \in {import_account(db, journal[accounts[a].journal_file], accounts[a], env)} :
            /\ Call(a, env, out)
            /\ batch' = [ batch EXCEPT
                    !.calls = Append(@, [ account |-> a, raised |-> out.raised,
                                          ret |-> out.ret,
                                          appended |-> out.appended ]),
                    !.results = IF out.raised THEN @
                                ELSE SetResult(@, accounts[a].ledger_account, out.ret),
                    !.pc = IF out.raised THEN "raised"
                           ELSE IF Len(batch.calls) + 1 = Len(batch.enabled)
                               THEN "returned"
                           ELSE "running" ]
    /\ UNCHANGED <<accounts, db, mergeVars, postVars>>

\* Every import_account call here is one made by import_all, so that a journal
\* changes only inside an import_all call.
BatchNext == DbAdd \/ ImportAllBegin \/ ImportAllStep

BatchSpec == BatchInit /\ [][BatchNext]_vars

-----------------------------------------------------------------------------
(* Claims about merge_accounts, checked under MergeSpec *)

Distinct(list) ==
    \A i, j \in DOMAIN list : list[i].id = list[j].id => i = j

\* the entry the discovered list holds last under id k
IsLastWithId(list, j, k) ==
    /\ list[j].id = k
    /\ \A m \in DOMAIN list : list[m].id = k => m <= j

SameUserFields(a, b) ==
    /\ a.ledger_account = b.ledger_account
    /\ a.journal_file = b.journal_file
    /\ a.start_date = b.start_date
    /\ a.enabled = b.enabled

SameBankFields(a, b) ==
    /\ a.mm_name = b.mm_name
    /\ a.currency = b.currency
    /\ a.iban = b.iban
    /\ a.bic = b.bic

\* an entry of merged with the id, user fields of e and bank fields of d
RefreshedFrom(m, e, d) ==
    m.id = e.id /\ SameUserFields(m, e) /\ SameBankFields(m, d)

\* C1: every existing entry whose id is in discovered is in merged with its
\* ledger_account, journal_file, start_date and enabled as they were before the
\* call and its mm_name, currency, iban, bic those of the discovered entry with
\* that id; and merged holds no other entry under an existing id.
C1_PreservesUserFields ==
    calls >= 1 =>
        /\ \A i \in DOMAIN before :
            before[i].id \in IdsOf(discovered) =>
                \E k \in DOMAIN merged, j \in DOMAIN discovered :
                    /\ IsLastWithId(discovered, j, before[i].id)
                    /\ RefreshedFrom(merged[k], before[i], discovered[j])
        /\ \A k \in DOMAIN merged :
            merged[k].id \in IdsOf(before) =>
                \E i \in DOMAIN before, j \in DOMAIN discovered :
                    /\ IsLastWithId(discovered, j, merged[k].id)
                    /\ RefreshedFrom(merged[k], before[i], discovered[j])

\* C1 witness: a call refreshed a renamed, enabled existing entry from a
\* discovered entry that differs from it in every field but the id.
C1_Witness ==
    /\ calls = 1
    /\ \E i \in DOMAIN before, k \in DOMAIN merged, j \in DOMAIN discovered :
        /\ before[i].id = discovered[j].id
        /\ merged[k].id = before[i].id
        /\ before[i].ledger_account = "Assets:Bank:Main"
        /\ before[i].enabled
        /\ discovered[j].mm_name = "Giro"
        /\ ~discovered[j].enabled
        /\ merged[k].mm_name = "Giro"

\* C2 (as claimed): every discovered entry whose id is absent from existing is
\* in new_accounts with enabled = FALSE, and in merged, whatever enabled value
\* it was passed in with.
C2_NewAccountsDisabled ==
    calls >= 1 =>
        \A j \in DOMAIN discovered :
            discovered[j].id \notin IdsOf(before) =>
                /\ \E k \in DOMAIN new_accounts :
                    new_accounts[k] = [discovered[j] EXCEPT !.enabled = FALSE]
                /\ \E k \in DOMAIN merged :
                    merged[k] = [discovered[j] EXCEPT !.enabled = FALSE]

\* C3: every existing id absent from discovered is in removed_ids and under no
\* entry of merged; removed_ids holds only such ids.
C3_DetectsRemoval ==
    calls >= 1 =>
        /\ \A i \in DOMAIN before :
            before[i].id \notin IdsOf(discovered) =>
                /\ \E k \in DOMAIN removed_ids : removed_ids[k] = before[i].id
                /\ before[i].id \notin IdsOf(merged)
        /\ \A k \in DOMAIN removed_ids :
            removed_ids[k] \in IdsOf(before) \ IdsOf(discovered)

\* C3 witness: a call dropped one existing account and kept another.
C3_Witness ==
    /\ calls = 1
    /\ removed_ids # <<>>
    /\ \E i \in DOMAIN before : before[i].id \in IdsOf(merged)

\* C4 (as claimed): merged holds no id twice, for any existing and discovered
\* lists, and every id of merged is an id of discovered.
C4_NoDuplicatesAnyInput ==
    calls >= 1 => Distinct(merged) /\ IdsOf(merged) \subseteq IdsOf(discovered)

\* C4 (amended): when neither existing nor discovered holds an id twice, merged
\* holds no id twice; for any inputs every id of merged is an id of discovered.
C4_NoDuplicatesDistinctInput ==
    calls >= 1 =>
        /\ (Distinct(before) /\ Distinct(discovered)) => Distinct(merged)
        /\ IdsOf(merged) \subseteq IdsOf(discovered)

\* C4 witness: duplicate-free lists that share an id and each hold an id the
\* other lacks were merged.
C4_Witness ==
    /\ calls = 1
    /\ Distinct(before) /\ Distinct(discovered)
    /\ IdsOf(before) \cap IdsOf(discovered) # {}
    /\ IdsOf(before) \ IdsOf(discovered) # {}
    /\ IdsOf(discovered) \ IdsOf(before) # {}
    /\ Len(merged) = 2

\* C5: merged is sorted ascending by id whatever the order of the inputs.
C5_SortedById ==
    calls >= 1 =>
        \A i, j \in DOMAIN merged : i < j => merged[i].id <= merged[j].id

\* C5 witness: the discovered list was passed in descending order and an
\* existing entry with a larger id precedes the new ones in append order.
C5_Witness ==
    /\ calls = 1
    /\ Len(merged) = 2
    /\ merged[1].id < merged[2].id
    /\ \/ /\ Len(discovered) = 2 /\ discovered[1].id > discovered[2].id
          /\ before = <<>>
       \/ /\ Len(before) = 1 /\ before[1].id = merged[2].id
          /\ new_accounts # <<>>

\* C6: a second call with the same two lists returns the same
\* (merged, new_accounts, removed_ids) as the first.
C6_Idempotent ==
    calls >= 2 => LastResult = prev

\* C6 witness: the first call changed an existing entry in place and reported
\* an added and a removed account; the second call has been made.
C6_Witness ==
    /\ calls = 2
    /\ existing # given
    /\ new_accounts # <<>>
    /\ removed_ids # <<>>

-----------------------------------------------------------------------------
(* Claims about import_account, checked under ImportSpec *)

\* the journal file the last call was about, as it is now
LastJournal == journal[accounts[last.account].journal_file]

\* number of UUID tags in a text whose value is the synthetic id of rowid id
EntryCount(text, id) ==
    Cardinality({ i \in DOMAIN text :
        /\ MatchAt(text, i, UUID_PREFIX)
        /\ LET from == i + Len(UUID_PREFIX)
               to == CHOOSE e \in from..(Len(text) + 1) :
                        /\ e = Len(text) + 1 \/ text[e] = NL
                        /\ \A k \in from..(e - 1) : text[k] # NL
           IN  SubSeq(text, from, to - 1) = <<"M", "-">> \o Str(id) })

\* the texts a line of `text` may start at, and the line starting there
LineStarts(text) == {1} \cup { k + 1 : k \in { j \in DOMAIN text : text[j] = NL } }

LineFrom(text, start) ==
    LET nls == { k \in start..Len(text) : text[k] = NL }
    IN  IF nls = {} THEN SubSeq(text, start, Len(text))
        ELSE SubSeq(text, start, (CHOOSE k \in nls : \A m \in nls : k <= m) - 1)

\* a line beginning with YYYY-MM-DD
IsDatedLine(line) ==
    /\ Len(line) >= 10
    /\ {line[1], line[2], line[3], line[4], line[6], line[7], line[9], line[10]}
            \subseteq Digits
    /\ line[5] = "-"
    /\ line[8] = "-"

DatedLines(text) ==
    Cardinality({ st \in LineStarts(text) : IsDatedLine(LineFrom(text, st)) })

AllWhitespace(text) == \A k \in DOMAIN text : text[k] \in Whitespace

\* C7: with a converter that prints one entry per row whose synthetic id is
\* not yet in the journal, no journal ever holds two entries for one
\* transaction id; and a call that fetched only transactions already in the
\* journal returned 0 and left the journal as it was.
C7_AppendsIdempotent ==
    /\ \A f \in DOMAIN journal, id \in RowIds : EntryCount(journal[f].text, id) <= 1
    /\ ( /\ last.account # 0
         /\ last.fault = "none"
         /\ last.out.transactions # <<>>
         /\ \A k \in DOMAIN last.out.transactions :
                EntryCount(last.before.text, last.out.transactions[k].transaction_id) = 1 )
       => ( ~last.out.raised /\ last.out.ret = 0 /\ LastJournal = last.before )

\* C7 witness: a journal holds two transactions appended by two calls, and a
\* further call that fetched both returned 0.
C7_Witness ==
    /\ last.account # 0
    /\ last.fault = "none"
    /\ Len(last.out.transactions) = 2
    /\ last.out.ret = 0
    /\ \A k \in 1..2 :
        EntryCount(LastJournal.text, last.out.transactions[k].transaction_id) = 1
    /\ \E i \in 2..Len(LastJournal.text) :
        LastJournal.text[i] = NL /\ LastJournal.text[i - 1] = NL

\* C8: a call whose fetch returned no transactions returned 0 and left the
\* journal file as it was (absent if it was absent); a call whose converter
\* output was empty or whitespace-only returned 0 and left the journal's
\* content as it was, the file existing afterwards.
C8_ZeroNewNoWrite ==
    last.account # 0 =>
        /\ (last.fault # "fetch" /\ last.out.transactions = <<>>)
            => (~last.out.raised /\ last.out.ret = 0 /\ LastJournal = last.before)
        /\ ( /\ last.fault = "none"
             /\ last.out.transactions # <<>>
             /\ AllWhitespace(last.out.output) )
            => ( /\ ~last.out.raised
                 /\ last.out.ret = 0
                 /\ LastJournal.exists
                 /\ LastJournal.text = last.before.text )

\* C8 witness: the converter printed only a newline for fetched transactions.
C8_Witness ==
    /\ last.account # 0
    /\ last.fault = "none"
    /\ last.out.transactions # <<>>
    /\ last.out.output = <<NL>>
    /\ last.out.ret = 0
    /\ LastJournal.text # <<>>

\* C9: a call that appended returned the number of lines of the appended text
\* that begin with a YYYY-MM-DD date, which is also the number of such lines
\* in the converter's output.
C9_CountsDatedLines ==
    (last.account # 0 /\ last.out.appended # <<>>) =>
        /\ ~last.out.raised
        /\ last.out.ret = DatedLines(last.out.appended)
        /\ last.out.ret = DatedLines(last.out.output)
        /\ LastJournal.text = last.before.text \o last.out.appended

\* C9 witness: a call appended two entries and returned 2.
C9_Witness ==
    /\ last.account # 0
    /\ last.out.appended # <<>>
    /\ DatedLines(last.out.output) = 2
    /\ last.out.ret = 2

\* the last call reached the converter and the converter failed
ConverterFailed ==
    /\ last.account # 0
    /\ last.fault \in {"ledger_missing", "ledger_exit"}
    /\ last.out.transactions # <<>>

\* C12: when the converter fails (no binary, or a non-zero exit), the call
\* raises instead of returning a count, and the journal holds what it held
\* before the call: the same file if there was one, an empty file otherwise.
C12_ConverterFailureAppendsNothing ==
    ConverterFailed =>
        /\ last.out.raised
        /\ last.out.appended = <<>>
        /\ LastJournal.exists
        /\ LastJournal.text = last.before.text
        /\ last.before.exists => LastJournal = last.before

\* a non-zero exit of the converter on a journal that already has entries
C12_Witness ==
    /\ ConverterFailed
    /\ last.fault = "ledger_exit"
    /\ last.before.text # <<>>
    /\ last.out.raised

\* a missing converter on an account whose journal did not exist yet
C12_WitnessCreated ==
    /\ ConverterFailed
    /\ last.fault = "ledger_missing"
    /\ ~last.before.exists
    /\ LastJournal = File(<<>>)

\* C13: no temporary exchange file outlives the call that created it: after
\* any sequence of import_account calls, whether they returned or raised (also
\* while writing the rows), the temporary directory holds none of them.
C13_NoTempFileLeft ==
    /\ tmpfiles = {}
    /\ ~last.out.leaked

-----------------------------------------------------------------------------
(* Claims about import_all, checked under BatchSpec *)

IsPrefix(s, t) == Len(s) <= Len(t) /\ SubSeq(t, 1, Len(s)) = s

\* C14: journals are append-only.  In every step, each journal file that
\* existed still exists, what it held is a prefix of what it holds, and if it
\* grew, it grew by one newline followed by the post-processed output of the
\* converter run of the call that made the step.
C14_AppendOnly ==
    [][ \A f \in JournalFiles :
          /\ journal[f].exists => journal'[f].exists
          /\ IsPrefix(journal[f].text, journal'[f].text)
          /\ journal'[f].text # journal[f].text =>
                /\ accounts[last'.account].journal_file = f
                /\ journal'[f].text =
                     journal[f].text \o <<NL>> \o _postprocess(last'.out.output) ]_vars

\* a call of import_all has appended entries to a journal that had entries
C14_Witness ==
    /\ batch.pc # "idle"
    /\ last.account # 0
    /\ last.before.text # <<>>
    /\ last.out.appended # <<>>
    /\ LastJournal.text = last.before.text \o last.out.appended

\* the accounts import_account was called for by the import_all call, in order
Imported == [ k \in DOMAIN batch.calls |-> batch.calls[k].account ]

\* seq lists, in config order, exactly the accounts with enabled = true
IsEnabledInOrder(seq) ==
    /\ \A k \in 1..(Len(seq) - 1) : seq[k] < seq[k + 1]
    /\ { seq[k] : k \in DOMAIN seq } = { i \in DOMAIN accounts : accounts[i].enabled }

\* what the first k calls of the import_all call appended to the file f
RECURSIVE AppendedTo(_, _)
AppendedTo(f, k) ==
    IF k = 0 THEN <<>>
    ELSE AppendedTo(f, k - 1) \o
         (IF accounts[batch.calls[k].account].journal_file = f
             THEN batch.calls[k].appended ELSE <<>>)

\* C11: import_all imports the enabled accounts only, in config order, one
\* after the other, up to and including the first whose import fails: the
\* accounts imported are a prefix of the enabled ones, only the last of them
\* can have failed, its failure ends import_all with that failure, a normal
\* return has imported them all, the journal of no other account has been
\* touched, and every journal holds what it held plus the appends made.
C11_PrefixUntilFirstFailure ==
    batch.pc # "idle" =>
        LET n == Len(batch.calls) IN
        /\ IsEnabledInOrder(batch.enabled)
        /\ IsPrefix(Imported, batch.enabled)
        /\ \A k \in 1..(n - 1) : ~batch.calls[k].raised
        /\ batch.pc = "raised" <=> (n > 0 /\ batch.calls[n].raised)
        /\ batch.pc = "returned" => Imported = batch.enabled
        /\ batch.pc = "running" => n < Len(batch.enabled)
        /\ \A f \in JournalFiles :
              /\ (\A k \in 1..n : accounts[Imported[k]].journal_file # f)
                    => journal[f] = batch.start[f]
              /\ journal[f].text = batch.start[f].text \o AppendedTo(f, n)

\* the second of two enabled accounts failed after the first had appended
C11_Witness ==
    /\ batch.pc = "raised"
    /\ Len(batch.calls) = 2
    /\ batch.calls[1].appended # <<>>
    /\ batch.calls[2].raised

\* the first of two enabled accounts failed: the second, with transactions
\* to import, was not imported and has no journal
C11_WitnessStopped ==
    /\ batch.pc = "raised"
    /\ batch.enabled = <<1, 2>>
    /\ Imported = <<1>>
    /\ accounts[2].journal_file = DEPOT
    /\ \E r \in db : r.account_id = accounts[2].id
    /\ ~journal[DEPOT].exists

\* a disabled account with transactions to import was passed over
C11_WitnessDisabled ==
    /\ batch.pc = "returned"
    /\ batch.enabled = <<2>>
    /\ \E r \in db : r.account_id = accounts[1].id
    /\ batch.calls[1].appended # <<>>
    /\ ~journal[GIRO].exists

\* the enabled accounts of the config, as positions in config.accounts
Enabled == { i \in DOMAIN accounts : accounts[i].enabled }

\* the calls of the import_all call for accounts whose ledger_account is name
CallsFor(name) ==
    { k \in DOMAIN batch.calls : accounts[batch.calls[k].account].ledger_account = name }

\* C15: when import_all returns, its result has exactly the ledger_account
\* names of the enabled accounts as keys, each with the count returned by the
\* import of the last enabled account of that name, and it has as many
\* entries as there are enabled accounts only if their names are distinct.
C15_ResultsByName ==
    batch.pc = "returned" =>
        /\ DOMAIN batch.results = { accounts[i].ledger_account : i \in Enabled }
        /\ \A name \in DOMAIN batch.results :
              \E k \in CallsFor(name) :
                  /\ \A j \in CallsFor(name) : j <= k
                  /\ batch.results[name] = batch.calls[k].ret
        /\ Cardinality(DOMAIN batch.results) = Cardinality(Enabled)
              <=> \A i, j \in Enabled :
                      accounts[i].ledger_account = accounts[j].ledger_account => i = j

\* two enabled accounts of one name whose imports returned different counts
C15_Witness ==
    /\ batch.pc = "returned"
    /\ Len(batch.calls) = 2
    /\ accounts[1].ledger_account = accounts[2].ledger_account
    /\ batch.calls[1].ret > batch.calls[2].ret
    /\ batch.results = [ n \in {"Assets:Giro"} |-> batch.calls[2].ret ]

\* two enabled accounts of different names, each with its own count
C15_WitnessDistinct ==
    /\ batch.pc = "returned"
    /\ Len(batch.calls) = 2
    /\ DOMAIN batch.results = {"Assets:Giro", "Assets:Depot"}
    /\ batch.results["Assets:Giro"] # batch.results["Assets:Depot"]

-----------------------------------------------------------------------------
(* Claims about _postprocess, checked under PostSpec *)

\* C10 (as claimed): every application of _postprocess after the first
\* returns its argument unchanged, for every text.
C10_PostprocessIdempotent ==
    \A n \in DOMAIN post_out : n >= 2 => post_out[n] = post_out[n - 1]

\* C10, the example: "UUID: M-123/456" becomes "UUID: M-123456".
C10_Example ==
    (post_in = UUID_PREFIX \o <<"M", "-", "1", "2", "3", "/", "4", "5", "6">>
     /\ post_out # <<>>)
        => post_out[1] = UUID_PREFIX \o <<"M", "-", "1", "2", "3", "4", "5", "6">>

====
